---- MODULE Spec2Model ----
(***************************************************************************)
(* Model of ImpoundmentSizeIndex::run                                      *)
(* (src/src/tools/hydro_analysis/impoundment_index.rs).                    *)
(*                                                                         *)
(* One behaviour is one invocation of the tool: argument parsing, the      *)
(* crest-elevation builder, the edge seeding, the priority flood, the      *)
(* accumulation sweep, the dam-height raster and the two raster writes.    *)
(*                                                                         *)
(* Elevations are f64 in the source; the model uses integers, with         *)
(* f64::NEG_INFINITY as a value below every other one, and keeps the mean  *)
(* depth (the only division of the run) as an exact fraction.              *)
(*                                                                         *)
(* out_type is read only by the branch that increments the index raster    *)
(* (lines 600-611) and by the metadata labels, so the model carries the    *)
(* index raster of the three out_types side by side: output[t] is the      *)
(* raster the run produces when out_type = t, and output[out_type] is the  *)
(* raster the run writes.                                                  *)
(*                                                                         *)
(* std::collections::BinaryHeap promises no order among elements of equal  *)
(* priority.  The model resolves the first MaxFreeTies tied pops of a run  *)
(* to any of the tied elements and every later tie by insertion order.     *)
(***************************************************************************)
EXTENDS Integers, Sequences, FiniteSets, TLC

VARIABLES
    pc,             \* position of the run in ImpoundmentSizeIndex::run
    args,           \* the command line: [out_type, damlength]
    rows, columns,  \* input.configs.rows / columns
    dem,            \* the input raster, nodata where there is no data
    grid_area,      \* resolution_x * resolution_y
    out_type,       \* 0 = area, 1 = volume, 2 = mean depth
    dam_length,
    half_dam_length,
    crest_elev,
    filled_dem,
    flow_dir,
    num_inflowing,
    minheap,        \* sequence of [cell, priority], in insertion order
    stack,          \* Vec of cells, last element on top
    upslope_elevs,
    output,         \* output[t]: the index raster for out_type t
    output_hgt,
    disk,           \* the rasters written so far
    result,         \* "running", "ok" or "err"
    freeTies,       \* tied heap pops that may still be resolved freely
    heap_pushes,    \* history: minheap.push calls so far, per cell
    heap_pops,      \* history: minheap.pop results so far, per cell
    stack_pushes,   \* history: stack.push calls so far, per cell
    stack_pops      \* history: stack.pop results so far, per cell

vars == << pc, args, rows, columns, dem, grid_area, out_type, dam_length,
           half_dam_length, crest_elev, filled_dem, flow_dir, num_inflowing,
           minheap, stack, upslope_elevs, output, output_hgt, disk, result,
           freeTies, heap_pushes, heap_pops, stack_pushes, stack_pops >>

\* the history variables: they record the calls of the run and are read by
\* no action
hist == << heap_pushes, heap_pops, stack_pushes, stack_pops >>

----------------------------------------------------------------------------
(* Bounds of the model *)

\* tied heap pops of one run that are resolved to any tied element
MaxFreeTies == 4
\* largest half dam length an out-of-range float-to-usize cast is given
MaxHalf == 2

(* Values of the program *)

\* input.configs.nodata: the no-data value of the input raster
nodata == -32768
\* the initial value of crest_elev
crest_init == -32768
\* (i32::min_value() + 1) as f64
background_val == -2147483647
\* f64::NEG_INFINITY: below every elevation and below crest_init
NEG_INFINITY == background_val - 1
\* the value of dam_length when --damlength is not given
default_dam_length == 111

dx == << 1, 1, 1, 0, -1, -1, -1, 0 >>
dy == << -1, 0, 1, 1, 1, 0, -1, -1 >>
perpendicular1 == << 2, 3, 4, 1 >>
perpendicular2 == << 6, 7, 0, 5 >>
back_link == << 4, 5, 6, 7, 0, 1, 2, 3 >>

OutTypes == 0 .. 2

----------------------------------------------------------------------------
(* Rasters: Array2D and Raster *)

Cells(R, C) == (0 .. R - 1) \X (0 .. C - 1)

InGrid(r, c) == r >= 0 /\ r < rows /\ c >= 0 /\ c < columns

\* Array2D::get_value / Raster::get_value: the no-data value outside the grid
GetValue(arr, nd, r, c) == IF InGrid(r, c) THEN arr[<< r, c >>] ELSE nd

\* Array2D::set_value / Raster::set_value: nothing outside the grid
SetValue(arr, r, c, v) ==
    IF InGrid(r, c) THEN [arr EXCEPT ![<< r, c >>] = v] ELSE arr

\* cells in the order of `for row in 0..rows { for col in 0..columns`
RowMajor(R, C) == [k \in 1 .. R * C |-> << (k - 1) \div C, (k - 1) % C >>]

----------------------------------------------------------------------------
(* Stage 1: the crest-elevation builder (lines 273-394) *)

\* (dam_length / 2f64).floor() as usize; a negative value is out of range
\* of usize and the cast of it is not defined by the 2018 toolchain
HalfDamLengths(len) ==
    IF len \div 2 >= 0 THEN { len \div 2 } ELSE 0 .. MaxHalf

\* a profile sample: the elevation, or -infinity on nodata / off the grid
Sample(r, c) ==
    IF GetValue(dem, nodata, r, c) # nodata
    THEN GetValue(dem, nodata, r, c) ELSE NEG_INFINITY

\* row / column of the profile cell at (0-based) index j of the profile
\* through (row, col) in direction dir
ProfileRow(row, dir, half, j) ==
    IF j >= half THEN row + (j - half) * dy[perpendicular1[dir + 1] + 1]
                 ELSE row + (half - j) * dy[perpendicular2[dir + 1] + 1]

ProfileCol(col, dir, half, j) ==
    IF j >= half THEN col + (j - half) * dx[perpendicular1[dir + 1] + 1]
                 ELSE col + (half - j) * dx[perpendicular2[dir + 1] + 1]

\* dam_profile after the loop of lines 296-321 (index k is the code's k - 1)
DamProfile(row, col, dir, half) ==
    [k \in 1 .. 2 * half + 1 |->
        IF k - 1 = half THEN GetValue(dem, nodata, row, col)
        ELSE Sample(ProfileRow(row, dir, half, k - 1),
                    ProfileCol(col, dir, half, k - 1))]

\* lines 324-330: the forward pass from index i on (F holds indices < i)
RECURSIVE ForwardFrom(_, _, _)
ForwardFrom(P, F, i) ==
    IF i > Len(P) - 1 THEN F
    ELSE ForwardFrom(P, [F EXCEPT ![i] = IF F[i - 1] > P[i] THEN F[i - 1]
                                         ELSE P[i]], i + 1)

\* a forward pass that keeps the lower of the two elevations
ForwardFillMin(P) ==
    [i \in 1 .. Len(P) |->
        IF i = 1 \/ i = Len(P) THEN P[i]
        ELSE IF P[i - 1] < P[i] THEN P[i - 1] ELSE P[i]]

\* dam_profile_filled after lines 323-333
ForwardFill(P) ==
    [ForwardFrom(P, [P EXCEPT ![1] = P[1]], 2) EXCEPT ![Len(P)] = P[Len(P)]]

\* lines 334-342: the backward pass from index i down
RECURSIVE BackwardFrom(_, _, _)
BackwardFrom(P, F, i) ==
    IF i < 2 THEN F
    ELSE BackwardFrom(P,
            IF F[i + 1] > P[i]
            THEN (IF F[i + 1] < F[i] THEN [F EXCEPT ![i] = F[i + 1]] ELSE F)
            ELSE [F EXCEPT ![i] = P[i]],
            i - 1)

\* a backward pass that takes the lower fill wave without the test against
\* the ground (line 335)
RECURSIVE BackwardFromUnguarded(_, _, _)
BackwardFromUnguarded(P, F, i) ==
    IF i < 2 THEN F
    ELSE BackwardFromUnguarded(P,
            IF F[i + 1] < F[i] THEN [F EXCEPT ![i] = F[i + 1]] ELSE F, i - 1)

BackwardRefineUnguarded(P, F) == BackwardFromUnguarded(P, F, Len(P) - 1)

\* dam_profile_filled after lines 334-342
BackwardRefine(P, F) == BackwardFrom(P, F, Len(P) - 1)

\* lines 344-381: raise crest_elev of every data cell the profile covers.
\* (Here and below, a test of DOMAIN only makes TLC compute the value of one
\* iteration before it starts the next.)
RECURSIVE RaiseCrest(_, _, _, _, _, _, _)
RaiseCrest(crest, F, row, col, dir, half, k) ==
    IF k > 2 * half + 1 THEN crest
    ELSE LET r == ProfileRow(row, dir, half, k - 1)
             c == ProfileCol(col, dir, half, k - 1)
             raised == IF /\ GetValue(dem, nodata, r, c) # nodata
                          /\ F[k] > GetValue(crest, nodata, r, c)
                       THEN SetValue(crest, r, c, F[k]) ELSE crest
         IN  IF DOMAIN raised = { } THEN raised
             ELSE RaiseCrest(raised, F, row, col, dir, half, k + 1)

\* one iteration of `for dir in 0..4` at a data cell
CrestOneProfile(crest, row, col, dir, half) ==
    LET P == DamProfile(row, col, dir, half)
        F == BackwardRefine(P, ForwardFill(P))
    IN  RaiseCrest(crest, F, row, col, dir, half, 1)

\* the loops of lines 288-386 from the k-th cell (row major), direction dir
RECURSIVE CrestLoop(_, _, _, _)
CrestLoop(crest, half, k, dir) ==
    IF k > rows * columns THEN crest
    ELSE LET row == RowMajor(rows, columns)[k][1]
             col == RowMajor(rows, columns)[k][2]
             next == IF dem[<< row, col >>] = nodata
                     THEN SetValue(crest, row, col, nodata)
                     ELSE IF dir > 3 THEN crest
                     ELSE CrestOneProfile(crest, row, col, dir, half)
         IN  IF DOMAIN next = { } THEN next
             ELSE IF dem[<< row, col >>] = nodata \/ dir > 3
             THEN CrestLoop(next, half, k + 1, 0)
             ELSE CrestLoop(next, half, k, dir + 1)

----------------------------------------------------------------------------
(* Stage 2a: finding the data edges (lines 412-493) *)

\* the queue after lines 428-441, from row r / column c on
RECURSIVE EdgeQueueRows(_)
EdgeQueueRows(r) ==
    IF r >= rows THEN << >>
    ELSE << << r, -1 >>, << r, columns >> >> \o EdgeQueueRows(r + 1)

RECURSIVE EdgeQueueCols(_)
EdgeQueueCols(c) ==
    IF c >= columns THEN << >>
    ELSE << << -1, c >>, << rows, c >> >> \o EdgeQueueCols(c + 1)

GridCell(r, c, p) == [row |-> r, column |-> c, priority |-> p]

\* the number of elements of heap that are the cell x
Occurrences(heap, x) ==
    Cardinality({ k \in DOMAIN heap :
                    heap[k].row = x[1] /\ heap[k].column = x[2] })

\* a seeding that gives an edge cell its ground elevation instead of its
\* crest elevation
SeedNeighbourGround(s, row, col, n) ==
    LET row_n == row + dy[n + 1]
        col_n == col + dx[n + 1]
        zin_n == GetValue(dem, nodata, row_n, col_n)
        zout_n == GetValue(s.filled, nodata, row_n, col_n)
    IN  IF zout_n # background_val THEN s
        ELSE IF zin_n = nodata
        THEN [s EXCEPT !.filled = SetValue(@, row_n, col_n, nodata),
                       !.queue = Append(@, << row_n, col_n >>)]
        ELSE [s EXCEPT !.filled = SetValue(@, row_n, col_n, zin_n),
                       !.heap = Append(@, GridCell(row_n, col_n, zin_n))]

\* lines 463-483 for neighbour n of (row, col); s = [queue, filled, heap]
SeedNeighbour(s, row, col, n) ==
    LET row_n == row + dy[n + 1]
        col_n == col + dx[n + 1]
        zin_n == GetValue(dem, nodata, row_n, col_n)
        zout_n == GetValue(s.filled, nodata, row_n, col_n)
    IN  IF zout_n # background_val THEN s
        ELSE IF zin_n = nodata
        THEN [s EXCEPT !.filled = SetValue(@, row_n, col_n, nodata),
                       !.queue = Append(@, << row_n, col_n >>)]
        ELSE [s EXCEPT !.filled = SetValue(@, row_n, col_n,
                                     GetValue(crest_elev, nodata, row_n, col_n)),
                       !.heap = Append(@, GridCell(row_n, col_n, zin_n))]

RECURSIVE SeedScan(_, _, _, _)
SeedScan(s, row, col, n) ==
    IF n > 7 THEN s
    ELSE SeedScan(SeedNeighbour(s, row, col, n), row, col, n + 1)

\* the region-growing loop of lines 458-493
RECURSIVE SeedLoop(_)
SeedLoop(s) ==
    IF s.queue = << >> THEN s
    ELSE SeedLoop(SeedScan([s EXCEPT !.queue = Tail(@)],
                           Head(s.queue)[1], Head(s.queue)[2], 0))

----------------------------------------------------------------------------
(* Stage 2b: the priority flood (lines 497-547) *)

\* GridCell's ordering (lines 733-747) makes the BinaryHeap pop an element of
\* the lowest priority
MinPriority(heap) ==
    CHOOSE p \in { heap[i].priority : i \in DOMAIN heap } :
        \A i \in DOMAIN heap : p <= heap[i].priority

PopCandidates(heap) ==
    { i \in DOMAIN heap : heap[i].priority = MinPriority(heap) }

FirstOf(S) == CHOOSE i \in S : \A j \in S : i <= j

RemoveAt(seq, i) ==
    [k \in 1 .. Len(seq) - 1 |-> IF k < i THEN seq[k] ELSE seq[k + 1]]

\* a flood that does not lift the neighbour to zout
LiftNone(zin_n, zout) == zin_n

\* lines 517-519: the filled value of a cell that drains to a cell at zout
Lift(zin_n, zout) == IF zin_n < zout THEN zout ELSE zin_n

\* a flood that does not count the neighbours it gives a flow direction
FloodNeighbourNoCount(s, row, col, zout, n) ==
    LET row_n == row + dy[n + 1]
        col_n == col + dx[n + 1]
        zout_n == GetValue(s.filled, nodata, row_n, col_n)
        zin_n == GetValue(crest_elev, nodata, row_n, col_n)
    IN  IF zout_n # background_val THEN s
        ELSE IF zin_n # nodata
        THEN [s EXCEPT !.flow_dir = SetValue(@, row_n, col_n, back_link[n + 1]),
                       !.filled = SetValue(@, row_n, col_n,
                                     IF zin_n < zout THEN zout ELSE zin_n),
                       !.heap = Append(@, GridCell(row_n, col_n,
                                     GetValue(dem, nodata, row_n, col_n)))]
        ELSE [s EXCEPT !.filled = SetValue(@, row_n, col_n, nodata)]

\* lines 509-531 for neighbour n of the popped cell (row, col);
\* s = [filled, flow_dir, heap, count]
FloodNeighbour(s, row, col, zout, n) ==
    LET row_n == row + dy[n + 1]
        col_n == col + dx[n + 1]
        zout_n == GetValue(s.filled, nodata, row_n, col_n)
        zin_n == GetValue(crest_elev, nodata, row_n, col_n)
    IN  IF zout_n # background_val THEN s
        ELSE IF zin_n # nodata
        THEN [s EXCEPT !.flow_dir = SetValue(@, row_n, col_n, back_link[n + 1]),
                       !.count = @ + 1,
                       !.filled = SetValue(@, row_n, col_n, Lift(zin_n, zout)),
                       !.heap = Append(@, GridCell(row_n, col_n,
                                     GetValue(dem, nodata, row_n, col_n)))]
        ELSE [s EXCEPT !.filled = SetValue(@, row_n, col_n, nodata)]

RECURSIVE FloodScan(_, _, _, _, _)
FloodScan(s, row, col, zout, n) ==
    IF n > 7 THEN s
    ELSE FloodScan(FloodNeighbour(s, row, col, zout, n), row, col, zout, n + 1)

----------------------------------------------------------------------------
(* Stage 3: the index accumulation (lines 562-627) *)

\* the f64 values of the index raster, as exact fractions
\* << numerator, denominator >> with a positive denominator
RECURSIVE Gcd(_, _)
Gcd(a, b) == IF b = 0 THEN a ELSE Gcd(b, a % b)

Abs(n) == IF n < 0 THEN -n ELSE n

Frac(n, d) == << n \div Gcd(Abs(n), d), d \div Gcd(Abs(n), d) >>

Real(n) == << n, 1 >>

FracAdd(x, y) == Frac(x[1] * y[2] + y[1] * x[2], x[2] * y[2])

FracMul(x, y) == Frac(x[1] * y[1], x[2] * y[2])

\* a sweep that forwards every elevation, whatever the cutoff
ForwardedAll(list, cutoff_z) == list

\* the elevations of list that pass `up_z < cutoff_z` (line 590), in order
Forwarded(list, cutoff_z) == SelectSeq(list, LAMBDA up_z : up_z < cutoff_z)

\* a count that takes the elevations at the threshold too
ImpoundedAtOrBelow(list, cutoff_z, threshold) ==
    SelectSeq(Forwarded(list, cutoff_z), LAMBDA up_z : up_z <= threshold)

\* the elevations that also pass `up_z < threshold` (line 592)
Impounded(list, cutoff_z, threshold) ==
    SelectSeq(Forwarded(list, cutoff_z), LAMBDA up_z : up_z < threshold)

RECURSIVE SumBelow(_, _)
SumBelow(list, threshold) ==
    IF list = << >> THEN 0
    ELSE (threshold - Head(list)) + SumBelow(Tail(list), threshold)

\* the value that output.increment adds under each out_type (lines 600-611)
Increment(t, num_upslope, vol) ==
    IF t = 0 THEN Real(num_upslope * grid_area)
    ELSE IF t = 1 THEN Real(vol)
    ELSE IF num_upslope > 0 THEN Frac(vol, num_upslope * grid_area)
    ELSE Real(0)

\* an increment of the popped cell instead of the cell it drains to
IncrementTargetSelf(x, y) == x

\* the cell that output.increment writes in the step of x draining to y
IncrementTarget(x, y) == y

\* Raster::initialize_using_file: a raster of the input's size, all nodata
InitializeUsingFile == [x \in Cells(rows, columns) |-> nodata]

\* Raster::reinitialize_values(v): every cell of the raster becomes v
ReinitializeValues(raster, v) == [x \in DOMAIN raster |-> v]

----------------------------------------------------------------------------
(* Argument parsing (lines 158-211) *)

\* strings are sequences of characters
depth_str == << "d", "e", "p", "t", "h" >>
volume_str == << "v", "o", "l", "u", "m", "e" >>
area_str == << "a", "r", "e", "a" >>
Depth_str == << "D", "e", "p", "t", "h" >>
vol_str == << "V", "O", "L" >>

\* str::to_lowercase on the letters the model's strings use
LowerChar(ch) ==
    CASE ch = "D" -> "d" [] ch = "V" -> "v" [] ch = "O" -> "o"
      [] ch = "L" -> "l" [] OTHER -> ch

ToLowercase(str) == [i \in DOMAIN str |-> LowerChar(str[i])]

\* str::contains
Contains(str, sub) ==
    \E i \in 0 .. Len(str) - Len(sub) :
        \A j \in 1 .. Len(sub) : str[i + j] = sub[j]

\* lines 160 and 191-203; a = the command line
ParseOutType(a) ==
    IF ~a.has_out_type THEN 0
    ELSE IF Contains(ToLowercase(a.out_type), << "v" >>) THEN 1
    ELSE IF Contains(ToLowercase(a.out_type), depth_str) THEN 2
    ELSE 0

\* lines 161 and 204-210
ParseDamLength(a) ==
    IF ~a.has_damlength THEN default_dam_length ELSE a.damlength

----------------------------------------------------------------------------
(* The inputs of the model's runs *)

Unset == << >>

Elevs == { 1, 5, 10 }

Args(ot, len) ==
    [has_out_type |-> TRUE, out_type |-> ot,
     has_damlength |-> TRUE, damlength |-> len]

Input(R, C, d, area, a) ==
    [rows |-> R, columns |-> C, dem |-> d, grid_area |-> area, args |-> a]

\* single-row rasters, every elevation
RowInputs ==
    { Input(1, 5, d, 1, Args(volume_str, len)) :
        d \in [Cells(1, 5) -> Elevs], len \in { 3, 5 } }

\* a raster whose cells all differ: no two cells tie in the heap
Ramp(R, C) == [x \in Cells(R, C) |-> 10 + C * x[1] + x[2]]

\* 3 x 4 rasters: two interior cells of any elevation or nodata, and a rim
\* that is a ramp but for four cells that may be a notch at 5
GridNotches == { << 0, 0 >>, << 0, 1 >>, << 1, 0 >>, << 2, 2 >> }
GridInterior == { << 1, 1 >>, << 1, 2 >> }

GridDems ==
    { [x \in Cells(3, 4) |->
          IF x \in GridInterior THEN i[x]
          ELSE IF x \in GridNotches /\ f[x] THEN 5 ELSE Ramp(3, 4)[x]] :
        i \in [GridInterior -> Elevs \cup { nodata }],
        f \in [GridNotches -> BOOLEAN] }

GridInputs ==
    { Input(3, 4, d, 2, Args(area_str, len)) :
        d \in GridDems, len \in { 1, 3 } }

\* 3 x 3 rasters with nodata anywhere: edge nodata, an interior hole, no data
HoleDems ==
    { [x \in Cells(3, 3) |->
          IF x = << 1, 1 >> THEN m
          ELSE IF f[x] THEN nodata ELSE Ramp(3, 3)[x]] :
        m \in { 1, 30, nodata },
        f \in [Cells(3, 3) \ { << 1, 1 >> } -> BOOLEAN] }

HoleInputs == { Input(3, 3, d, 1, Args(depth_str, 3)) : d \in HoleDems }

\* the n x n bowl: rim at 10, interior at 1
BowlDem(n) ==
    [x \in Cells(n, n) |->
        IF x[1] \in { 0, n - 1 } \/ x[2] \in { 0, n - 1 } THEN 10 ELSE 1]

BowlInputs == { Input(5, 5, BowlDem(5), 1, Args(area_str, 3)) }

\* command lines, on a 3 x 3 pit; --damlength is not optional (line 91)
ArgInputs ==
    { Input(3, 3, [Ramp(3, 3) EXCEPT ![<< 1, 1 >>] = 1], 1, a) :
        a \in [has_out_type : BOOLEAN,
               out_type : { depth_str, volume_str, area_str, Depth_str, vol_str },
               has_damlength : { TRUE },
               damlength : { -3, 0, 1, 3 }] }

\* 5 x 5 rasters whose centre cell lies inside a ring of nodata cells; the
\* ring is closed or has a gap of one data cell
Ring == { x \in Cells(5, 5) : x # << 2, 2 >> /\ x[1] \in 1 .. 3 /\ x[2] \in 1 .. 3 }

RingDems ==
    { [x \in Cells(5, 5) |->
          IF x = << 2, 2 >> THEN m
          ELSE IF x \in Ring \ gap THEN nodata ELSE Ramp(5, 5)[x]] :
        m \in { 1, 50 },
        gap \in { { }, { << 1, 1 >> }, { << 2, 3 >> } } }

RingInputs == { Input(5, 5, d, 1, Args(area_str, 3)) : d \in RingDems }

Inputs ==
    RowInputs \cup GridInputs \cup HoleInputs \cup BowlInputs \cup ArgInputs
        \cup RingInputs

----------------------------------------------------------------------------
(* The run *)

Init ==
    \E in \in Inputs :
        /\ pc = "parse"
        /\ args = in.args
        /\ rows = in.rows
        /\ columns = in.columns
        /\ dem = in.dem
        /\ grid_area = in.grid_area
        /\ out_type = 0
        /\ dam_length = default_dam_length
        /\ half_dam_length = 0
        /\ crest_elev = Unset
        /\ filled_dem = Unset
        /\ flow_dir = Unset
        /\ num_inflowing = Unset
        /\ minheap = << >>
        /\ stack = << >>
        /\ upslope_elevs = Unset
        /\ output = Unset
        /\ output_hgt = Unset
        /\ disk = { }
        /\ result = "running"
        /\ freeTies = MaxFreeTies
        /\ heap_pushes = [x \in Cells(in.rows, in.columns) |-> 0]
        /\ heap_pops = [x \in Cells(in.rows, in.columns) |-> 0]
        /\ stack_pushes = [x \in Cells(in.rows, in.columns) |-> 0]
        /\ stack_pops = [x \in Cells(in.rows, in.columns) |-> 0]

\* lines 158-229: the command line is parsed
ParseArgs ==
    /\ pc = "parse"
    /\ out_type' = ParseOutType(args)
    /\ dam_length' = ParseDamLength(args)
    /\ pc' = "read"
    /\ UNCHANGED << args, rows, columns, dem, grid_area, half_dam_length,
                    crest_elev, filled_dem, flow_dir, num_inflowing, minheap,
                    stack, upslope_elevs, output, output_hgt, disk, result,
                    freeTies >>
    /\ UNCHANGED hist

\* line 253: Raster::new(&input_file, "r")? reads the DEM or fails
ReadInput ==
    /\ pc = "read"
    /\ \/ pc' = "crest" /\ result' = result
       \/ pc' = "end" /\ result' = "err"
    /\ UNCHANGED << args, rows, columns, dem, grid_area, out_type, dam_length,
                    half_dam_length, crest_elev, filled_dem, flow_dir,
                    num_inflowing, minheap, stack, upslope_elevs, output,
                    output_hgt, disk, freeTies >>
    /\ UNCHANGED hist

\* lines 273-394: the crest-elevation builder
BuildCrest ==
    /\ pc = "crest"
    /\ \E half \in HalfDamLengths(dam_length) :
        /\ half_dam_length' = half
        /\ crest_elev' = CrestLoop([x \in Cells(rows, columns) |-> crest_init],
                                   half, 1, 0)
    /\ pc' = "edges"
    /\ UNCHANGED << args, rows, columns, dem, grid_area, out_type, dam_length,
                    filled_dem, flow_dir, num_inflowing, minheap, stack,
                    upslope_elevs, output, output_hgt, disk, result, freeTies >>
    /\ UNCHANGED hist

\* lines 412-500: the data edges are found and pushed onto the heap
FindEdges ==
    /\ pc = "edges"
    /\ LET s == SeedLoop([queue |-> EdgeQueueRows(0) \o EdgeQueueCols(0),
                          filled |-> [x \in Cells(rows, columns) |-> background_val],
                          heap |-> << >>])
       IN  /\ filled_dem' = s.filled
           /\ minheap' = s.heap
           /\ heap_pushes' = [x \in Cells(rows, columns) |->
                                 heap_pushes[x] + Occurrences(s.heap, x)]
    /\ UNCHANGED << heap_pops, stack_pushes, stack_pops >>
    /\ flow_dir' = [x \in Cells(rows, columns) |-> -1]
    /\ num_inflowing' = [x \in Cells(rows, columns) |-> -1]
    /\ stack' = << >>
    /\ pc' = "flood"
    /\ UNCHANGED << args, rows, columns, dem, grid_area, out_type, dam_length,
                    half_dam_length, crest_elev, upslope_elevs, output,
                    output_hgt, disk, result, freeTies >>

\* lines 502-547: one iteration of `while !minheap.is_empty()`, popping the
\* heap element at index i
FloodPopAt(i) ==
    LET cell == minheap[i]
        row == cell.row
        col == cell.column
        zout == GetValue(filled_dem, nodata, row, col)
        s == FloodScan([filled |-> filled_dem, flow_dir |-> flow_dir,
                        heap |-> RemoveAt(minheap, i), count |-> 0],
                       row, col, zout, 0)
    IN  /\ filled_dem' = s.filled
        /\ flow_dir' = s.flow_dir
        /\ minheap' = s.heap
        /\ num_inflowing' = SetValue(num_inflowing, row, col, s.count)
        /\ stack' = IF s.count = 0 THEN Append(stack, << row, col >>) ELSE stack
        /\ heap_pops' = [heap_pops EXCEPT ![<< row, col >>] = @ + 1]
        /\ heap_pushes' =
              LET pushed == SubSeq(s.heap, Len(minheap), Len(s.heap))
                  at == { << pushed[k].row, pushed[k].column >> :
                            k \in DOMAIN pushed }
              IN  IF at = { } THEN heap_pushes
                  ELSE [x \in Cells(rows, columns) |->
                          IF x \in at
                          THEN heap_pushes[x] + Occurrences(pushed, x)
                          ELSE heap_pushes[x]]
        /\ stack_pushes' = IF s.count = 0
                           THEN [stack_pushes EXCEPT ![<< row, col >>] = @ + 1]
                           ELSE stack_pushes
        /\ stack_pops' = stack_pops

FloodPop ==
    /\ pc = "flood"
    /\ minheap # << >>
    /\ \/ /\ freeTies > 0
          /\ Cardinality(PopCandidates(minheap)) > 1
          /\ freeTies' = freeTies - 1
          /\ \E i \in PopCandidates(minheap) : FloodPopAt(i)
       \/ /\ freeTies = 0 \/ Cardinality(PopCandidates(minheap)) = 1
          /\ freeTies' = freeTies
          /\ FloodPopAt(FirstOf(PopCandidates(minheap)))
    /\ UNCHANGED << pc, args, rows, columns, dem, grid_area, out_type,
                    dam_length, half_dam_length, crest_elev, upslope_elevs,
                    output, output_hgt, disk, result >>

\* lines 562-571: the elevation lists and the index raster are created
BeginAccumulation ==
    /\ pc = "flood"
    /\ minheap = << >>
    /\ upslope_elevs' = [x \in Cells(rows, columns) |-> << >>]
    /\ output' = [t \in OutTypes |->
                     ReinitializeValues(InitializeUsingFile, Real(0))]
    /\ pc' = "accum"
    /\ UNCHANGED << args, rows, columns, dem, grid_area, out_type, dam_length,
                    half_dam_length, crest_elev, filled_dem, flow_dir,
                    num_inflowing, minheap, stack, output_hgt, disk, result,
                    freeTies >>
    /\ UNCHANGED hist

\* lines 584-598 for the popped cell x draining to y: the list of x with its
\* own elevation appended
ListAt(x) == Append(upslope_elevs[x], dem[x])

\* num_upslope of the step of x draining to y
NumUpslope(x, y) ==
    Len(Impounded(ListAt(x), filled_dem[y], crest_elev[y]))

\* vol of the step of x draining to y
Vol(x, y) ==
    SumBelow(Impounded(ListAt(x), filled_dem[y], crest_elev[y]), crest_elev[y])

\* lines 572-627: one iteration of `while !stack.is_empty()`
AccumPop ==
    /\ pc = "accum"
    /\ stack # << >>
    /\ LET x == stack[Len(stack)]
           dir == flow_dir[x]
           y == << x[1] + dy[dir + 1], x[2] + dx[dir + 1] >>
           ninf == [num_inflowing EXCEPT ![x] = @ - 1]
       IN  IF dir >= 0
           THEN /\ upslope_elevs' =
                      [upslope_elevs EXCEPT
                          ![y] = @ \o Forwarded(ListAt(x), filled_dem[y]),
                          ![x] = << >>]
                /\ output' =
                      [t \in OutTypes |->
                          [output[t] EXCEPT
                              ![IncrementTarget(x, y)] =
                                  FracAdd(@, Increment(t, NumUpslope(x, y),
                                                       Vol(x, y)))]]
                /\ num_inflowing' = [ninf EXCEPT ![y] = @ - 1]
                /\ stack' = IF ninf[y] - 1 = 0
                            THEN Append(SubSeq(stack, 1, Len(stack) - 1), y)
                            ELSE SubSeq(stack, 1, Len(stack) - 1)
                /\ stack_pushes' = IF ninf[y] - 1 = 0
                                   THEN [stack_pushes EXCEPT ![y] = @ + 1]
                                   ELSE stack_pushes
           ELSE /\ num_inflowing' = ninf
                /\ stack' = SubSeq(stack, 1, Len(stack) - 1)
                /\ UNCHANGED << upslope_elevs, output, stack_pushes >>
    /\ stack_pops' = [stack_pops EXCEPT ![stack[Len(stack)]] = @ + 1]
    /\ UNCHANGED << heap_pushes, heap_pops >>
    /\ UNCHANGED << pc, args, rows, columns, dem, grid_area, out_type,
                    dam_length, half_dam_length, crest_elev, filled_dem,
                    flow_dir, minheap, output_hgt, disk, result, freeTies >>

\* lines 630-655: the dam height above the ground
DamHeight ==
    /\ pc = "accum"
    /\ stack = << >>
    /\ output_hgt' = [x \in Cells(rows, columns) |->
                         IF dem[x] # nodata THEN crest_elev[x] - dem[x]
                         ELSE InitializeUsingFile[x]]
    /\ pc' = "write"
    /\ UNCHANGED << args, rows, columns, dem, grid_area, out_type, dam_length,
                    half_dam_length, crest_elev, filled_dem, flow_dir,
                    num_inflowing, minheap, stack, upslope_elevs, output,
                    disk, result, freeTies >>
    /\ UNCHANGED hist

\* lines 678-685: output.write() succeeds or returns its error
WriteOutput ==
    /\ pc = "write"
    /\ \/ pc' = "write_hgt" /\ disk' = disk \cup { "output" } /\ result' = result
       \/ pc' = "end" /\ disk' = disk /\ result' = "err"
    /\ UNCHANGED << args, rows, columns, dem, grid_area, out_type, dam_length,
                    half_dam_length, crest_elev, filled_dem, flow_dir,
                    num_inflowing, minheap, stack, upslope_elevs, output,
                    output_hgt, freeTies >>
    /\ UNCHANGED hist

\* lines 704-720: output_hgt.write() succeeds or returns its error
WriteHgt ==
    /\ pc = "write_hgt"
    /\ \/ disk' = disk \cup { "output_hgt" } /\ result' = "ok"
       \/ disk' = disk /\ result' = "err"
    /\ pc' = "end"
    /\ UNCHANGED << args, rows, columns, dem, grid_area, out_type, dam_length,
                    half_dam_length, crest_elev, filled_dem, flow_dir,
                    num_inflowing, minheap, stack, upslope_elevs, output,
                    output_hgt, freeTies >>
    /\ UNCHANGED hist

Next ==
    \/ ParseArgs
    \/ ReadInput
    \/ BuildCrest
    \/ FindEdges
    \/ FloodPop
    \/ BeginAccumulation
    \/ AccumPop
    \/ DamHeight
    \/ WriteOutput
    \/ WriteHgt

Spec == Init /\ [][Next]_vars

\* the run does not stop inside `while !stack.is_empty()` (lines 572-627);
\* every iteration of the loop changes the stack
AccumSpec == Spec /\ WF_stack(AccumPop)

----------------------------------------------------------------------------
(* Notions the properties use *)

AllCells == Cells(rows, columns)

DataCells == { x \in AllCells : dem[x] # nodata }

CrestBuilt == DOMAIN crest_elev # { }

FloodDone == DOMAIN num_inflowing # { } /\ minheap = << >>

AccumDone == DOMAIN output # { } /\ stack = << >>

HeightDone == DOMAIN output_hgt # { }

\* the data cells the seeding or the flood has reached
Reached ==
    { x \in DataCells : DOMAIN filled_dem # { } /\ filled_dem[x] # background_val }

\* the cell that x drains to (flow_dir[x] >= 0)
Down(x) == << x[1] + dy[flow_dir[x] + 1], x[2] + dx[flow_dir[x] + 1] >>

\* the flow path from y passes through x within n steps
RECURSIVE Reaches(_, _, _)
Reaches(y, x, n) ==
    /\ n > 0
    /\ flow_dir[y] >= 0
    /\ (Down(y) = x \/ Reaches(Down(y), x, n - 1))

\* the cells strictly upstream of x
Upstream(x) == { y \in DataCells : Reaches(y, x, rows * columns) }

\* the cells that drain straight into x
Inflowing(x) == { y \in DataCells : flow_dir[y] >= 0 /\ Down(y) = x }

----------------------------------------------------------------------------
(* C1: once the crest-elevation builder has run, crest_elev >= dem on every
   data cell, and the dam-height raster is crest_elev - dem >= 0 there. *)
C1_CrestAtOrAboveGround ==
    /\ CrestBuilt => \A x \in DataCells : crest_elev[x] >= dem[x]
    /\ HeightDone =>
          \A x \in DataCells :
              output_hgt[x] = crest_elev[x] - dem[x] /\ output_hgt[x] >= 0

\* a run with a dam of at least three cells that lifts a crest above the ground
C1_Witness ==
    /\ HeightDone
    /\ half_dam_length >= 1
    /\ \E x \in DataCells : crest_elev[x] > dem[x] /\ output_hgt[x] > 0

(* C2: with out_type = area, when the accumulation has ended the index of
   every data cell x is the cell area times the number of cells strictly
   upstream of x whose elevation is below crest_elev[x]. *)
C2_AreaCountsUpstreamBelowCrest ==
    AccumDone =>
        \A x \in DataCells :
            output[0][x] =
                Real(grid_area *
                     Cardinality({ y \in Upstream(x) : dem[y] < crest_elev[x] }))

\* a cell with an upstream chain of two cells, one counted and one not,
\* below a cell whose filled value was lifted above its crest
C2_Witness ==
    /\ AccumDone
    /\ \E x \in DataCells :
          /\ \E y \in Upstream(x) : y \notin Inflowing(x) /\ dem[y] < crest_elev[x]
          /\ \E y \in Upstream(x) : dem[y] >= crest_elev[x]
          /\ \E y \in Upstream(x) : filled_dem[y] > crest_elev[y]

(* C3 as amended: with dam_length = 1, crest_elev equals dem on every data
   cell and the dam height is 0; when the accumulation has ended the index
   of a cell is 0, under every out_type, exactly when no cell upstream of it
   is lower than the cell itself. *)
C3_DamLengthOne ==
    (CrestBuilt /\ dam_length = 1) =>
        /\ \A x \in DataCells : crest_elev[x] = dem[x]
        /\ HeightDone => \A x \in DataCells : output_hgt[x] = 0
        /\ AccumDone =>
              \A x \in DataCells : \A t \in OutTypes :
                  (output[t][x] = Real(0)) <=>
                      ~ \E y \in Upstream(x) : dem[y] < dem[x]

\* a run with dam_length = 1 whose raster has a pit and a flat
C3_Witness ==
    /\ HeightDone
    /\ dam_length = 1
    /\ \E x \in DataCells : output[0][x] # Real(0)
    /\ \E x \in DataCells : \E y \in Upstream(x) :
          dem[y] = dem[x] /\ output[0][x] = Real(0)

(* C3 as stated: with dam_length = 1, crest_elev equals dem on every data
   cell, num_up is 0 at every accumulation step and every cell of the index
   raster is 0 under every out_type. *)
C3_Original ==
    (CrestBuilt /\ dam_length = 1) =>
        /\ \A x \in DataCells : crest_elev[x] = dem[x]
        /\ DOMAIN output # { } =>
              \A x \in AllCells : \A t \in OutTypes : output[t][x] = Real(0)

(* C4 as amended: the index of a cell is written only by the accumulation
   steps of the cells that drain straight into it; a cell none of whose
   inflowing neighbours has been processed, outlet or not, holds 0. *)
C4_WrittenOnlyByInflow ==
    DOMAIN output # { } =>
        \A x \in AllCells : \A t \in OutTypes :
            output[t][x] # Real(0) =>
                \E y \in Inflowing(x) : num_inflowing[y] = -1

\* the accumulation has ended with an outlet that holds a non-zero index
\* and an outlet without inflowing neighbours
C4_Witness ==
    /\ AccumDone
    /\ \E x \in DataCells : flow_dir[x] = -1 /\ output[0][x] # Real(0)
    /\ \E x \in DataCells : /\ flow_dir[x] = -1 /\ num_inflowing[x] = -1
                            /\ Inflowing(x) = { }

(* C4 as stated: the index of every outlet cell (a data cell whose flow_dir
   is -1 after the priority flood) is never written during the accumulation
   and is 0 when the accumulation ends. *)
C4_Original ==
    DOMAIN output # { } =>
        \A x \in DataCells :
            flow_dir[x] = -1 => \A t \in OutTypes : output[t][x] = Real(0)

(* C5: at the end of a run on a DEM that has data cells and nodata cells,
   every nodata cell holds the nodata value in the index raster and in the
   dam-height raster. *)
C5_NodataInBothOutputs ==
    (HeightDone /\ DataCells # { }) =>
        \A x \in AllCells \ DataCells :
            output[out_type][x] = Real(nodata) /\ output_hgt[x] = nodata

\* scenario S2: the 1 x 5 valley
S2Dem == [x \in Cells(1, 5) |-> << 10, 5, 1, 5, 10 >>[x[2] + 1]]

IsS2 ==
    /\ rows = 1 /\ columns = 5 /\ dem = S2Dem /\ grid_area = 1
    /\ args.damlength = 5

(* C6 as amended: in scenario S2 (out_type = volume, dam_length = 5) the
   crest at the centre is 10 and the dam height 9, but every cell of the
   one-row raster is seeded from the raster edge: every flow_dir is -1 and
   the index is 0 at every cell. *)
C6_ValleyRowAllOutlets ==
    (IsS2 /\ HeightDone) =>
        /\ crest_elev[<< 0, 2 >>] = 10
        /\ output_hgt[<< 0, 2 >>] = 9
        /\ \A x \in AllCells :
              flow_dir[x] = -1 /\ \A t \in OutTypes : output[t][x] = Real(0)

C6_Witness == IsS2 /\ HeightDone /\ out_type = 1 /\ result = "ok"

(* C6 as stated: in scenario S2 the flood makes both sides of the row flow
   to the centre cell, whose crest is 10, dam height 9 and index (volume)
   19 when the accumulation has ended. *)
C6_Original ==
    (IsS2 /\ HeightDone) =>
        /\ crest_elev[<< 0, 2 >>] = 10
        /\ output_hgt[<< 0, 2 >>] = 9
        /\ { << 0, 1 >>, << 0, 3 >> } \subseteq Inflowing(<< 0, 2 >>)
        /\ output[1][<< 0, 2 >>] = Real(19)

\* scenario S4: the 5 x 5 bowl
IsS4 ==
    /\ rows = 5 /\ columns = 5 /\ dem = BowlDem(5) /\ grid_area = 1
    /\ args.damlength = 3

S4Interior == { x \in Cells(5, 5) : BowlDem(5)[x] = 1 }

(* C7: in scenario S4, whichever way the heap resolves its ties, all nine
   interior cells drain through one rim cell, whose index is 9 for
   out_type = area and 81 for out_type = volume. *)
C7_BowlDrainsThroughOneRimCell ==
    (IsS4 /\ AccumDone) =>
        \E x \in AllCells \ S4Interior :
            /\ S4Interior \subseteq Upstream(x)
            /\ output[0][x] = Real(9)
            /\ output[1][x] = Real(81)

\* the bowl has drained through a rim cell after MaxFreeTies freely
\* resolved ties
C7_Witness ==
    /\ IsS4 /\ AccumDone /\ freeTies = 0
    /\ \E x \in AllCells \ S4Interior : S4Interior \subseteq Upstream(x)

(* C8: at every cell the volume index is the depth index times the area
   index, also where a cell has more than one inflowing neighbour. *)
C8_VolumeIsDepthTimesArea ==
    AccumDone =>
        \A x \in AllCells :
            output[1][x] = FracMul(output[2][x], output[0][x])

(* C9: a run with dam_length <= 0 is rejected: it builds no raster, writes
   none and ends in error. *)
C9_NonPositiveDamLengthRejected ==
    (pc # "parse" /\ dam_length <= 0) =>
        /\ ~ CrestBuilt
        /\ disk = { }
        /\ pc = "end" => result = "err"

(* C10: when --out_type is not given the run uses out_type = depth. *)
C10_DefaultOutTypeIsDepth ==
    (pc # "parse" /\ ~ args.has_out_type) => out_type = 2

(* C11: a run that ends in error has written no output raster: in no state
   is the index raster on disk while the run has returned an error. *)
C11_NoPartialOutputs ==
    result = "err" => disk = { }

(* C12 as amended: after the priority flood, for every data cell c with
   flow_dir[c] >= 0 that drains to c', filled_dem[c] is the larger of
   crest_elev[c] and filled_dem[c']: filled_dem[c] >= filled_dem[c'], so
   filled_dem never rises along a flow path towards the outlet. *)
C12_FilledNeverRisesDownstream ==
    FloodDone =>
        \A c \in DataCells :
            flow_dir[c] >= 0 =>
                /\ filled_dem[c] = IF crest_elev[c] > filled_dem[Down(c)]
                                   THEN crest_elev[c]
                                   ELSE filled_dem[Down(c)]
                /\ filled_dem[c] >= filled_dem[Down(c)]

\* the flood has ended with a cell above the cell it drains to and a cell
\* lifted to the level of the cell it drains to
C12_Witness ==
    /\ FloodDone
    /\ \E c \in DataCells :
          flow_dir[c] >= 0 /\ filled_dem[c] > filled_dem[Down(c)]
    /\ \E c \in DataCells :
          /\ flow_dir[c] >= 0
          /\ filled_dem[c] = filled_dem[Down(c)]
          /\ filled_dem[c] > crest_elev[c]

(* C12 as stated: after the priority flood, for every data cell c with
   flow_dir[c] >= 0 that drains to c', filled_dem[c'] >= filled_dem[c]. *)
C12_Original ==
    FloodDone =>
        \A c \in DataCells :
            flow_dir[c] >= 0 => filled_dem[Down(c)] >= filled_dem[c]

(* C13: after the seeding and the priority flood every data cell has been
   visited exactly once, also a data cell inside a ring of nodata cells: it
   was pushed onto and popped from the min-heap once, its filled_dem is not
   the background value and is at least its crest_elev, and its
   num_inflowing is set (>= 0) until the accumulation decrements it. *)
C13_EveryDataCellVisitedOnce ==
    FloodDone =>
        \A x \in DataCells :
            /\ heap_pushes[x] = 1
            /\ heap_pops[x] = 1
            /\ filled_dem[x] # background_val
            /\ filled_dem[x] >= crest_elev[x]
            /\ pc = "flood" => num_inflowing[x] >= 0

(* C14: the accumulation sweep terminates; every data cell the flood has
   reached is pushed onto the stack once and popped from it once, no cell
   more often; a cell is on the stack, and so is popped, only while its
   num_inflowing is 0; and when the sweep has ended every cell's
   num_inflowing is -1. *)
C14_SweepPopsEveryCellOnce ==
    /\ [](\A x \in AllCells :
             stack_pushes[x] <= 1 /\ stack_pops[x] <= stack_pushes[x])
    /\ [](pc \in { "flood", "accum" } =>
             \A k \in DOMAIN stack : num_inflowing[stack[k]] = 0)
    /\ [](AccumDone =>
             /\ \A x \in AllCells : num_inflowing[x] = -1
             /\ \A x \in Reached : stack_pushes[x] = 1 /\ stack_pops[x] = 1)
    /\ (pc = "accum") ~> AccumDone

\* the sweep has ended on a raster with a divide, a cell that two cells drain
\* into and an outlet, each pushed and popped once
C14_Witness ==
    /\ AccumDone
    /\ \E x \in Reached : Inflowing(x) = { } /\ flow_dir[x] >= 0
    /\ \E x \in Reached :
          /\ Cardinality(Inflowing(x)) >= 2
          /\ stack_pushes[x] = 1 /\ stack_pops[x] = 1
    /\ \E x \in Reached : flow_dir[x] = -1 /\ stack_pops[x] = 1

(* C15 as amended: when the accumulation has ended the upslope_elevs list of
   every cell with flow_dir >= 0 is empty; the list of an outlet cell
   (flow_dir = -1) is never cleared: it holds the elevations of the cells
   upstream of the outlet that are below the outlet's filled_dem. *)
C15_ListsEmptyButAtOutlets ==
    AccumDone =>
        \A x \in AllCells :
            /\ flow_dir[x] >= 0 => upslope_elevs[x] = << >>
            /\ flow_dir[x] = -1 =>
                  /\ Len(upslope_elevs[x]) =
                        Cardinality({ y \in Upstream(x) : dem[y] < filled_dem[x] })
                  /\ \A k \in DOMAIN upslope_elevs[x] :
                        \E y \in Upstream(x) :
                            /\ dem[y] = upslope_elevs[x][k]
                            /\ dem[y] < filled_dem[x]

\* the accumulation has ended with an outlet that still holds elevations
\* and has an upstream cell whose elevation was not forwarded to it, and
\* with a cleared cell that another cell drains into
C15_Witness ==
    /\ AccumDone
    /\ \E x \in DataCells :
          /\ flow_dir[x] = -1
          /\ upslope_elevs[x] # << >>
          /\ \E y \in Upstream(x) : dem[y] >= filled_dem[x]
    /\ \E x \in DataCells :
          /\ flow_dir[x] >= 0
          /\ Inflowing(x) # { }
          /\ upslope_elevs[x] = << >>

(* C15 as stated: when the accumulation has ended the upslope_elevs list of
   every cell is empty, the lists of the outlet cells included. *)
C15_Original ==
    AccumDone => \A x \in AllCells : upslope_elevs[x] = << >>

\* the sum of num_inflowing over the cells of S
RECURSIVE SumInflowing(_)
SumInflowing(S) ==
    IF S = { } THEN 0
    ELSE LET x == CHOOSE y \in S : TRUE
         IN  num_inflowing[x] + SumInflowing(S \ { x })

(* C16: when the priority flood has ended and the accumulation has not
   started, the sum of num_inflowing over the data cells is the number of
   data cells whose flow_dir is >= 0, whatever the DEM and its nodata cells. *)
C16_InflowConservation ==
    (pc = "flood" /\ minheap = << >>) =>
        SumInflowing(DataCells) =
            Cardinality({ x \in DataCells : flow_dir[x] >= 0 })

\* the cells on the flow path from c, c first, followed for at most n steps
RECURSIVE Path(_, _)
Path(c, n) ==
    IF flow_dir[c] < 0 \/ n = 0 THEN << c >>
    ELSE << c >> \o Path(Down(c), n - 1)

\* the highest crest_elev among the cells of path p
MaxCrest(p) ==
    CHOOSE z \in { crest_elev[p[i]] : i \in DOMAIN p } :
        \A i \in DOMAIN p : z >= crest_elev[p[i]]

(* C17: after the priority flood, the flow path from every data cell the
   flood has reached ends at a cell with flow_dir = -1 without passing a
   cell twice, and filled_dem of the cell is the highest crest_elev on that
   path; so filled_dem[c] >= filled_dem[down(c)] >= crest_elev[down(c)], and
   in every accumulation step an elevation below the threshold is below the
   cutoff as well. *)
C17_FilledIsMaxCrestOnPath ==
    /\ FloodDone =>
          \A c \in Reached :
              LET p == Path(c, rows * columns)
              IN  /\ flow_dir[p[Len(p)]] = -1
                  /\ \A i, j \in DOMAIN p : i # j => p[i] # p[j]
                  /\ filled_dem[c] = MaxCrest(p)
                  /\ flow_dir[c] >= 0 =>
                        /\ filled_dem[c] >= filled_dem[Down(c)]
                        /\ filled_dem[Down(c)] >= crest_elev[Down(c)]
    /\ (pc = "accum" /\ stack # << >> /\ flow_dir[stack[Len(stack)]] >= 0) =>
          LET x == stack[Len(stack)]
              y == Down(x)
          IN  \A k \in DOMAIN ListAt(x) :
                  ListAt(x)[k] < crest_elev[y] => ListAt(x)[k] < filled_dem[y]

\* an accumulation step is about to count an elevation and to drop another
\* at the cutoff, on a raster with a flow path of three cells whose first
\* cell was lifted above its crest
C17_Witness ==
    /\ pc = "accum" /\ stack # << >> /\ flow_dir[stack[Len(stack)]] >= 0
    /\ LET x == stack[Len(stack)]
       IN  /\ \E k \in DOMAIN ListAt(x) : ListAt(x)[k] < crest_elev[Down(x)]
           /\ \E k \in DOMAIN ListAt(x) : ListAt(x)[k] >= filled_dem[Down(x)]
    /\ \E c \in Reached :
          /\ Len(Path(c, rows * columns)) >= 3
          /\ filled_dem[c] > crest_elev[c]

====
